---- MODULE Spec2Model ----
(***************************************************************************)
(* A model of calculate_rms_stats (rms_calculator.py): the argument checks, *)
(* the collaborator queries (cmd.count_states, cmd.count_atoms,             *)
(* cmd.intra_fit), the per-mode aggregation, the report formatter and the   *)
(* export to a file.                                                        *)
(*                                                                          *)
(* Conventions.  A Python string is a sequence of one-character strings     *)
(* (a fixed literal may stand as one token).  Python's None is the empty    *)
(* tuple and a present value v is <<v>>.  A dict whose keys are 1..k is a   *)
(* sequence of length k.  A float is an exact rational [k, n, d]; math.nan  *)
(* is the record NaN.  RMS values are small integers.                       *)
(***************************************************************************)
EXTENDS Integers, Sequences, FiniteSets, TLC

None == <<>>
Some(v) == <<v>>

\* The two compute_mode calls, in call order.
ModeOrderReversed == <<"no_hydrogen", "all">>
ModeOrder == <<"all", "no_hydrogen">>
ModeNames == {"all", "no_hydrogen"}

-----------------------------------------------------------------------------
(* Bounds of the model *)

\* cmd.count_states answers 0..MaxStates (Spec, SpecSession)
MaxStates == 2
\* cmd.count_states answers 0..AggStates (SpecAgg)
AggStates == 3
\* invocations in one session (SpecSession)
MaxInvocations == 2
\* wall-clock seconds that pass in one session (SpecSession)
MaxClock == 1

-----------------------------------------------------------------------------
(* Arithmetic *)

RECURSIVE Gcd(_, _)
Gcd(a, b) == IF b = 0 THEN a ELSE Gcd(b, a % b)

RECURSIVE Sum(_)
Sum(xs) == IF xs = <<>> THEN 0 ELSE Head(xs) + Sum(Tail(xs))

RECURSIVE SumSq(_)
SumSq(xs) == IF xs = <<>> THEN 0 ELSE Head(xs) * Head(xs) + SumSq(Tail(xs))

\* math.nan
NaN == [k |-> "nan", n |-> 0, d |-> 1]

\* the float n/d (d > 0, n >= 0), in lowest terms
Rat(n, d) == LET g == Gcd(n, d) IN [k |-> "num", n |-> n \div g, d |-> d \div g]

\* the float sqrt(n/d), kept exact: a rational when n/d is a square
RECURSIVE IsqrtIn(_, _, _)
IsqrtIn(m, lo, hi) ==
    IF lo = hi THEN lo
    ELSE LET mid == (lo + hi + 1) \div 2
         IN  IF mid * mid <= m THEN IsqrtIn(m, mid, hi) ELSE IsqrtIn(m, lo, mid - 1)
\* the integer part of the square root (46340 is the largest root of a 32-bit integer)
Isqrt(m) == IsqrtIn(m, 0, IF m < 46340 THEN m ELSE 46340)

Sqrt(q) ==
    LET rn == Isqrt(q.n)
        rd == Isqrt(q.d)
    IN  IF rn * rn = q.n /\ rd * rd = q.d
        THEN Rat(rn, rd)
        ELSE [k |-> "sqrt", n |-> q.n, d |-> q.d]

\* statistics.mean of a non-empty list
StatMean(xs) == Rat(Sum(xs), Len(xs))

StatStdevPopulation(xs) ==
    LET cnt == Len(xs)
        s == Sum(xs)
    IN  Sqrt(Rat(cnt * SumSq(xs) - s * s, cnt * cnt))

\* statistics.stdev of a list of at least two values (N-1 denominator)
StatStdev(xs) ==
    LET cnt == Len(xs)
        s == Sum(xs)
    IN  Sqrt(Rat(cnt * SumSq(xs) - s * s, cnt * (cnt - 1)))

IsNaN(x) == x.k = "nan"

-----------------------------------------------------------------------------
(* Strings *)

Digits == <<"0", "1", "2", "3", "4", "5", "6", "7", "8", "9">>
UpperLetters == <<"A", "B", "C", "D", "E", "F", "G", "H", "I", "J", "K", "L", "M",
                  "N", "O", "P", "Q", "R", "S", "T", "U", "V", "W", "X", "Y", "Z">>
LowerLetters == <<"a", "b", "c", "d", "e", "f", "g", "h", "i", "j", "k", "l", "m",
                  "n", "o", "p", "q", "r", "s", "t", "u", "v", "w", "x", "y", "z">>
Range(f) == {f[i] : i \in DOMAIN f}

\* c.isalnum()
IsAlnum(c) == c \in Range(Digits) \cup Range(UpperLetters) \cup Range(LowerLetters)

\* c.lower()
LowerChar(c) ==
    IF c \in Range(UpperLetters)
    THEN LowerLetters[CHOOSE i \in DOMAIN UpperLetters : UpperLetters[i] = c]
    ELSE c
Lower(s) == [i \in DOMAIN s |-> LowerChar(s[i])]

\* s.strip(): whitespace off both ends
RECURSIVE LStrip(_, _)
LStrip(s, cs) == IF s # <<>> /\ Head(s) \in cs THEN LStrip(Tail(s), cs) ELSE s
RECURSIVE RStrip(_, _)
RStrip(s, cs) ==
    IF s # <<>> /\ s[Len(s)] \in cs THEN RStrip(SubSeq(s, 1, Len(s) - 1), cs) ELSE s
StripChars(s, cs) == RStrip(LStrip(s, cs), cs)
Whitespace == {" "}
Strip(s) == StripChars(s, Whitespace)

\* s[:k]
Truncate(s, k) == SubSeq(s, 1, IF Len(s) < k THEN Len(s) ELSE k)

\* "".join(c if c.isalnum() or c in ("-", "_") else "_" for c in s)
SafeChars(s) == [i \in DOMAIN s |-> IF IsAlnum(s[i]) \/ s[i] \in {"-", "_"} THEN s[i] ELSE "_"]

\* s.replace("__", "_"): left to right, non-overlapping
RECURSIVE ReplaceDouble(_)
ReplaceDouble(s) ==
    IF Len(s) < 2 THEN s
    ELSE IF s[1] = "_" /\ s[2] = "_"
         THEN <<"_">> \o ReplaceDouble(SubSeq(s, 3, Len(s)))
         ELSE <<s[1]>> \o ReplaceDouble(Tail(s))
HasDouble(s) == \E i \in 1..(Len(s) - 1) : s[i] = "_" /\ s[i + 1] = "_"
\* while "__" in s: s = s.replace("__", "_")
RECURSIVE Collapse(_)
Collapse(s) == IF HasDouble(s) THEN Collapse(ReplaceDouble(s)) ELSE s

ObjLimit == 30
SelLimit == 40

\* safe_obj (lines 350-351)
SafeObj(obj) == Truncate(SafeChars(obj), ObjLimit)

\* the triviality test of the selection (lines 235 and 354)
SelectionProvided(sel) == Strip(sel) # <<>> /\ Lower(Strip(sel)) # <<"a", "l", "l">>

\* sel_part (lines 353-363)
SelPart(sel) ==
    IF SelectionProvided(sel)
    THEN <<"_", "s", "e", "l", "_">>
         \o Truncate(StripChars(Collapse(SafeChars(sel)), {"_"}), SelLimit)
    ELSE <<>>

\* strftime("%Y%m%d_%H%M")
TimestampMinutes(t) == <<"YYYYMMDD_HHMM">>

\* strftime("%Y%m%d_%H%M%S") of the wall clock: fixed width, seconds resolution.
\* The clock of the model counts the seconds of one minute.
Timestamp(t) == <<"YYYYMMDD_HHMM", Digits[((t \div 10) % 10) + 1], Digits[(t % 10) + 1]>>

\* filename (line 366)
ReportFilename(obj, sel, t) ==
    <<"rms_report_">> \o SafeObj(obj) \o SelPart(sel) \o <<"_">> \o Timestamp(t) \o <<".txt">>

\* base_selection (line 119) and sel_no_h (line 138)
BaseSelection(obj, sel) == <<"(">> \o obj \o <<") and (">> \o sel \o <<")">>
SelNoH(obj, sel) == BaseSelection(obj, sel) \o <<" and (not hydro)">>
SelectionOf(mode, obj, sel) ==
    IF mode = "all" THEN BaseSelection(obj, sel) ELSE SelNoH(obj, sel)

-----------------------------------------------------------------------------
(* The aggregation of one state's RMS values (compute_mode) *)

\* What cmd.intra_fit can answer: it raises, or returns None, one number, a
\* sequence of numbers, or something no float can be made of.
Raises(r) == r.kind = "raise"
RaiseRms == [kind |-> "raise", vs |-> <<>>]
NoneRms == [kind |-> "none", vs |-> <<>>]
JunkRms == [kind |-> "junk", vs |-> <<>>]
ScalarRms(v) == [kind |-> "scalar", vs |-> <<v>>]
SeqRms(vs) == [kind |-> "seq", vs |-> vs]

\* lines 167-175: the returned value as a list of floats
NormalizeRms(r) ==
    CASE r.kind = "none" -> <<>>
      [] r.kind = "scalar" -> <<r.vs[1]>>
      [] r.kind = "seq" -> r.vs
      [] OTHER -> <<>>

IsValidRmsPositive(x) == x > 0
IsValidRms(x) == x >= 0

\* line 178: rms_filtered
RmsFiltered(vs) == SelectSeq(vs, IsValidRms)

\* lines 182-187: the mean recorded for a state
StateMean(filtered) == IF filtered # <<>> THEN StatMean(filtered) ELSE NaN

\* compute_mode's locals before the loop (lines 154-156)
EmptyAcc == [per_state_means |-> <<>>, all_rms |-> <<>>, per_state_pairs |-> <<>>]

IterateSkipsFailure(a, r) ==
    IF Raises(r)
    THEN a
    ELSE LET filtered == RmsFiltered(NormalizeRms(r))
         IN  [per_state_means |-> Append(a.per_state_means, StateMean(filtered)),
              per_state_pairs |-> Append(a.per_state_pairs, filtered),
              all_rms |-> IF filtered # <<>> THEN a.all_rms \o filtered ELSE a.all_rms]

IterateExtendsUnfiltered(a, r) ==
    IF Raises(r)
    THEN [a EXCEPT !.per_state_means = Append(@, NaN),
                   !.per_state_pairs = Append(@, <<>>)]
    ELSE LET filtered == RmsFiltered(NormalizeRms(r))
         IN  [per_state_means |-> Append(a.per_state_means, StateMean(filtered)),
              per_state_pairs |-> Append(a.per_state_pairs, filtered),
              all_rms |-> IF filtered # <<>> THEN a.all_rms \o NormalizeRms(r) ELSE a.all_rms]

\* one iteration of the loop (lines 159-187) on the locals a, for the answer r
Iterate(a, r) ==
    IF Raises(r)
    THEN [a EXCEPT !.per_state_means = Append(@, NaN),
                   !.per_state_pairs = Append(@, <<>>)]
    ELSE LET filtered == RmsFiltered(NormalizeRms(r))
         IN  [per_state_means |-> Append(a.per_state_means, StateMean(filtered)),
              per_state_pairs |-> Append(a.per_state_pairs, filtered),
              all_rms |-> IF filtered # <<>> THEN a.all_rms \o filtered ELSE a.all_rms]

\* lines 201-206
OverallMean(rms_list) == IF rms_list # <<>> THEN StatMean(rms_list) ELSE NaN
OverallSd(rms_list) == IF Len(rms_list) > 1 THEN StatStdev(rms_list) ELSE NaN

\* summarize (lines 196-206): the mode's entry of the result
Summarize(a) ==
    [per_state_means |-> a.per_state_means,
     per_state_pairs |-> a.per_state_pairs,
     all_rms |-> a.all_rms,
     overall_mean |-> OverallMean(a.all_rms),
     overall_sd |-> OverallSd(a.all_rms)]

\* lines 95-117 and 119-120: the result as first built
EmptyMode ==
    [per_state_means |-> <<>>, per_state_pairs |-> <<>>, all_rms |-> <<>>,
     overall_mean |-> NaN, overall_sd |-> NaN]
InitialResult(obj, sel) ==
    [modes |-> [all |-> EmptyMode, no_hydrogen |-> EmptyMode],
     selection |-> Some(BaseSelection(obj, sel)),
     atom_counts |-> [all |-> None, no_hydrogen |-> None],
     states |-> 0,
     report_file |-> None,
     error |-> None]

\* line 129 and line 381: the messages stored in result["error"]
StatesError(obj, exc) == <<"Failed to determine states for '">> \o obj \o <<"': ">> \o exc
WriteError(path, exc) == <<"Failed to write report to '">> \o path \o <<"': ">> \o exc
\* line 382
JoinErrorDropped(old, err) == old
JoinError(old, err) == IF old = None THEN Some(err) ELSE Some(old[1] \o <<"; ">> \o err)

-----------------------------------------------------------------------------
(* The report (format_report_lines) *)

\* A line of the report: its fixed text t, the strings s and the numbers c
\* formatted into it.  A formatted number is a cell: <<k>> for the decimal
\* k/1000 (or the integer k), <<>> for the tokens "nan" and "?".
Line(t, s, c) == [t |-> t, s |-> s, c |-> c]
Text(t) == Line(t, <<>>, <<>>)

\* "-" * 60
Dash60 == Text("------------------------------------------------------------")

\* x rounded to three decimals, in thousandths
Milli(x) ==
    IF x.k = "num"
    THEN (2000 * x.n + x.d) \div (2 * x.d)
    ELSE LET q == 4000000 * (x.n \div x.d) + (4000000 * (x.n % x.d)) \div x.d
         IN  (Isqrt(q) + 1) \div 2

\* fmt_num (lines 213-214)
FmtNum(x) == IF IsNaN(x) THEN <<>> ELSE <<Milli(x)>>
\* str(n) if n is not None else "?"
FmtCount(n) == IF n = None THEN <<>> ELSE <<n[1]>>

\* dict.get(key, default) on a dict with keys 1..k
Get(dict, key, default) == IF key \in DOMAIN dict THEN dict[key] ELSE default

RECURSIVE Flatten(_)
Flatten(ss) == IF ss = <<>> THEN <<>> ELSE Head(ss) \o Flatten(Tail(ss))

\* lines 224-230
LevelLine(level) ==
    Line("The level of detail in this report has been set to => ",
         <<CASE level = 0 -> "0 (average values only)"
             [] level = 1 -> "1 (global average and per-state means included)"
             [] OTHER -> "2 (full detail)">>,
         <<>>)

\* lines 218-258: the header and the metadata block
HeaderLines(level, res, sel) ==
    <<Text(""), Text("*****************************"), Text("* RMS Statistics Calculator *"),
      Text("*****************************"), Text(""),
      LevelLine(level),
      Text(""), Text("############ Data selection ############")>>
    \o (IF ~SelectionProvided(sel)
        THEN <<Text("Note: no explicit selection was provided"),
               Text("If you want a subset"),
               Text("It is not necessary to explicitely exlude hydrogen atoms"),
               Text("")>>
        ELSE <<>>)
    \o <<Text(""), Text("xxxxxxxxxxxxxxxxxxxxxxxxxxxxxxxxxxxxxxxx"),
         Line("Resolved selection: ", res.selection[1], <<>>),
         Line("States inspected: ", <<>>, <<<<res.states>>>>),
         Text("Atoms selected:"),
         Line("  All: ", <<>>, <<FmtCount(res.atom_counts.all)>>),
         Line("  Heavy (no H): ", <<>>, <<FmtCount(res.atom_counts.no_hydrogen)>>),
         Text("xxxxxxxxxxxxxxxxxxxxxxxxxxxxxxxxxxxxxxxx"), Text(""),
         Text("########################################"), Text("")>>

\* lines 261-276: the summary table
SummaryRow(name, res, mode) ==
    Line(name, <<>>,
         <<FmtCount(res.atom_counts[mode]), <<Len(res.modes[mode].all_rms)>>,
           FmtNum(res.modes[mode].overall_mean), FmtNum(res.modes[mode].overall_sd)>>)
SummaryLines(res) ==
    <<Text("======================== RMS Summary ========================"),
      Text("Mode #atoms #values mean sd"), Dash60,
      SummaryRow("All atoms", res, "all"),
      SummaryRow("Heavy atoms", res, "no_hydrogen"),
      Dash60>>

\* lines 283-288 and 292-297: one per-state table
StateRow(res, mode, i) ==
    Line("state row", <<>>,
         <<<<i>>, FmtNum(Get(res.modes[mode].per_state_means, i, NaN)),
           <<Len(Get(res.modes[mode].per_state_pairs, i, <<>>))>>>>)
StateTable(title, res, mode) ==
    <<Text(title), Text("State Mean RMS #pairs"), Text("----------------------------------")>>
    \o [i \in 1..res.states |-> StateRow(res, mode, i)]

\* lines 280-298
PerStateLines(res) ==
    <<Text("Average RMS per state (showing NaN where unavailable):"), Text("")>>
    \o StateTable("All atoms:", res, "all")
    \o <<Text("")>>
    \o StateTable("Heavy atoms (no H):", res, "no_hydrogen")
    \o <<Dash60>>

\* lines 305-313 and 316-324: the pairs of one state in one mode
PairBlock(title, res, mode, i) ==
    LET pairs == Get(res.modes[mode].per_state_pairs, i, <<>>)
    IN  <<Line(title, <<>>, <<<<i>>, FmtNum(Get(res.modes[mode].per_state_means, i, NaN))>>),
          Text("Pair # RMS"), Text("----------------------")>>
        \o (IF pairs # <<>>
            THEN [j \in 1..Len(pairs) |-> Line("pair row", <<>>, <<<<j>>, FmtNum(Rat(pairs[j], 1))>>)]
            ELSE <<Text("   (no pair RMS values)")>>)

\* lines 302-325
DetailLines(res) ==
    <<Text("Detailed per-state individual pair RMS values:")>>
    \o Flatten([i \in 1..res.states |->
                   <<Text("")>> \o PairBlock("State - All atoms (mean = )", res, "all", i)
                   \o <<Text("")>> \o PairBlock("State - Heavy atoms (mean = )", res, "no_hydrogen", i)
                   \o <<Dash60>>])

\* lines 326-330
SuppressedNote(level) ==
    IF level = 0
    THEN <<Text("(Average RMS per state and detailed per-pair output suppressed)")>>
    ELSE IF level = 1
         THEN <<Text("(Detailed per-pair output suppressed; set display_level==2 to enable)")>>
         ELSE <<>>

FooterLines == <<Text("========================================================"), Text("")>>

FormatReportLinesExclusive(level, res, sel) ==
    HeaderLines(level, res, sel)
    \o SummaryLines(res)
    \o (IF level = 1 THEN PerStateLines(res) ELSE <<>>)
    \o (IF level >= 2 THEN DetailLines(res) ELSE SuppressedNote(level))
    \o FooterLines

\* format_report_lines (lines 212-335)
FormatReportLines(level, res, sel) ==
    HeaderLines(level, res, sel)
    \o SummaryLines(res)
    \o (IF level >= 1 THEN PerStateLines(res) ELSE <<>>)
    \o (IF level >= 2 THEN DetailLines(res) ELSE SuppressedNote(level))
    \o FooterLines

-----------------------------------------------------------------------------
(* The file system and the clock *)

\* A path is a sequence of components below the working directory, a
\* component a string.  <<>> is the working directory ".".
Dot == <<>>
ReportsDir == << <<"reports">> >>
\* a file path whose parent directory does not exist yet
OutFile == << <<"out">>, <<"rms.txt">> >>

Parent(path) == SubSeq(path, 1, Len(path) - 1)
Prefixes(path) == {SubSeq(path, 1, k) : k \in 0..Len(path)}
\* str(path)
RECURSIVE PathStr(_)
PathStr(path) ==
    IF path = <<>> THEN <<".">>
    ELSE IF Len(path) = 1 THEN path[1]
         ELSE path[1] \o <<"/">> \o PathStr(Tail(path))
\* str(file_path.resolve())
Resolve(path) == <<"/cwd/">> \o PathStr(path)

\* file_path (lines 347-370)
FilePath(target, existing_dirs, obj, sel, t) ==
    IF target \in existing_dirs
    THEN Append(target, ReportFilename(obj, sel, t))
    ELSE target

\* "\n".join(report_lines) + "\n": every line, each ended by a newline
FileText(lines) == lines

-----------------------------------------------------------------------------
(* The state *)

VARIABLES
    args,          \* the arguments of the running invocation
    pc,            \* where the invocation is
    result,        \* the dict result
    states,        \* the local states
    mode,          \* which compute_mode call runs (1: "all", 2: "no_hydrogen")
    state_idx,     \* compute_mode's loop variable
    acc,           \* per mode: per_state_means, all_rms, per_state_pairs
    rms_values,    \* what cmd.intra_fit answered in the last iteration
    caught,        \* the exception the last step caught (exc), if any
    report_lines,  \* format_report_lines()
    console,       \* what this invocation wrote to standard output
    calls,         \* the collaborator calls of this invocation, in order
    returned,      \* the value returned to the caller, if any
    raised,        \* the exception raised to the caller, if any
    dirs,          \* the directories that exist
    files,         \* the files that exist, with their text
    now,           \* the wall clock, in seconds
    exports,       \* the reports written in this session, in order
    invocation     \* how many invocations the session has seen

vars == <<args, pc, result, states, mode, state_idx, acc, rms_values, caught, report_lines,
          console, calls, returned, raised, dirs, files, now, exports, invocation>>

locals == <<result, states, mode, state_idx, acc, rms_values, caught, report_lines>>

\* except Exception as exc
Caught(fn, exc) == Some([fn |-> fn, exc |-> exc])
disk == <<dirs, files, now, exports, invocation>>

\* _p (lines 122-124)
OutAlways(lines) == console \o lines
Out(lines) == IF args.quiet THEN console ELSE console \o lines

Call(fn, arg, idx) == [fn |-> fn, arg |-> arg, state |-> idx]

BlankResult == [InitialResult(<<>>, <<>>) EXCEPT !.selection = None]

HelpText == <<"calculate_rms_stats usage: ...">>

ValidLevelsLoose == {0, 1, 2, 3}
ValidLevels == {0, 1, 2}

\* The state an invocation with arguments a starts in
Enter(a) ==
    /\ args = a
    /\ pc = "entry"
    /\ result = BlankResult
    /\ states = 0
    /\ mode = 1
    /\ state_idx = 1
    /\ acc = [all |-> EmptyAcc, no_hydrogen |-> EmptyAcc]
    /\ rms_values = None
    /\ caught = None
    /\ report_lines = <<>>
    /\ console = <<>>
    /\ calls = <<>>
    /\ returned = None
    /\ raised = None

-----------------------------------------------------------------------------
(* The steps of calculate_rms_stats *)

\* lines 68-90: no object given
Help ==
    /\ pc = "entry"
    /\ args.obj_to_fit = None
    /\ console' = Out(<<Line("", HelpText, <<>>)>>)
    /\ returned' = Some([help |-> HelpText])
    /\ pc' = "returned"
    /\ UNCHANGED <<args, locals, calls, raised, disk>>

\* lines 92-93: the display level is checked
RejectLevel ==
    /\ pc = "entry"
    /\ args.obj_to_fit # None
    /\ args.display_level \notin ValidLevels
    /\ raised' = Some("ValueError: display_level must be 0, 1, or 2")
    /\ pc' = "raised"
    /\ UNCHANGED <<args, locals, console, calls, returned, disk>>

\* line 132: return result
AfterStatesFailureMissing == "count_atoms"
AfterStatesFailure == "returned"

\* What cmd.count_states can answer
StateAnswers(maxn) ==
    {[raised |-> TRUE, n |-> 0, exc |-> <<"Invalid object">>]}
    \cup {[raised |-> FALSE, n |-> k, exc |-> <<>>] : k \in 0..maxn}

\* lines 95-134: the result is built and the states are counted
CountStates(answers) ==
    /\ pc = "entry"
    /\ args.obj_to_fit # None
    /\ args.display_level \in ValidLevels
    /\ \E ans \in answers :
        LET obj == args.obj_to_fit[1]
            fresh == InitialResult(obj, args.selection)
            err == StatesError(obj, ans.exc)
        IN  /\ calls' = Append(calls, Call("count_states", obj, 0))
            /\ IF ans.raised
               THEN /\ caught' = Caught("count_states", ans.exc)
                    /\ result' = [fresh EXCEPT !.error = Some(err)]
                    /\ console' = Out(<<Line("", err, <<>>)>>)
                    /\ pc' = AfterStatesFailure
                    /\ returned' = IF pc' = "returned" THEN Some(result') ELSE returned
                    /\ states' = states
               ELSE /\ caught' = None
                    /\ result' = [fresh EXCEPT !.states = ans.n]
                    /\ states' = ans.n
                    /\ console' = console
                    /\ returned' = returned
                    /\ pc' = "count_atoms"
    /\ UNCHANGED <<args, mode, state_idx, acc, rms_values, report_lines, raised, disk>>

\* What cmd.count_atoms can answer
AtomAnswers ==
    {[raised |-> TRUE, n |-> 0, exc |-> <<"Invalid selection">>],
     [raised |-> FALSE, n |-> 12, exc |-> <<>>]}

\* lines 143-145 and 149-151: a failure of cmd.count_atoms stores None for
\* that count and nothing else
AtomCountFailureSetsError(res, m) ==
    [res EXCEPT !.atom_counts[m] = None, !.error = Some(<<"Failed to count atoms">>)]
AtomCountFailure(res, m) == [res EXCEPT !.atom_counts[m] = None]

\* lines 141-151: the atoms of both selections are counted
CountAtoms(answers) ==
    /\ pc = "count_atoms"
    /\ LET m == ModeOrder[mode]
           sel == SelectionOf(m, args.obj_to_fit[1], args.selection)
       IN  /\ calls' = Append(calls, Call("count_atoms", sel, 0))
           /\ \E ans \in answers :
               IF ans.raised
               THEN /\ caught' = Caught("count_atoms", ans.exc)
                    /\ result' = AtomCountFailure(result, m)
                    /\ console' = Out(<<Line("Warning: failed to count atoms for selection", sel, <<>>)>>)
               ELSE /\ caught' = None
                    /\ result' = [result EXCEPT !.atom_counts[m] = Some(ans.n)]
                    /\ console' = console
    /\ IF mode = 1
       THEN mode' = 2 /\ pc' = pc
       ELSE mode' = 1 /\ pc' = "compute_mode"
    /\ UNCHANGED <<args, states, state_idx, acc, rms_values, report_lines, returned, raised, disk>>

\* lines 158-187: one iteration of compute_mode's loop
IntraFit(answers) ==
    /\ pc = "compute_mode"
    /\ state_idx <= states
    /\ LET m == ModeOrder[mode]
           sel == SelectionOf(m, args.obj_to_fit[1], args.selection)
       IN  /\ calls' = Append(calls, Call("intra_fit", sel, state_idx))
           /\ \E r \in answers :
               /\ rms_values' = Some(r)
               /\ caught' = IF Raises(r) THEN Caught("intra_fit", <<"Selection error">>) ELSE None
               /\ acc' = [acc EXCEPT ![m] = Iterate(@, r)]
               /\ console' = IF Raises(r)
                             THEN Out(<<Line("Warning: intra_fit failed for state", sel, <<<<state_idx>>>>)>>)
                             ELSE console
    /\ state_idx' = state_idx + 1
    /\ UNCHANGED <<args, pc, result, states, mode, report_lines, returned, raised, disk>>

\* lines 189 and 192-193: compute_mode(sel_all) returns, compute_mode(sel_no_h) starts
NextMode ==
    /\ pc = "compute_mode"
    /\ state_idx > states
    /\ mode = 1
    /\ mode' = 2
    /\ state_idx' = 1
    /\ rms_values' = None
    /\ caught' = None
    /\ UNCHANGED <<args, pc, result, states, acc, report_lines, console, calls, returned,
                   raised, disk>>

\* lines 189 and 196-342: compute_mode(sel_no_h) returns, both modes are
\* summarized, the report is formatted and written to the console
Report ==
    /\ pc = "compute_mode"
    /\ state_idx > states
    /\ mode = 2
    /\ rms_values' = None
    /\ caught' = None
    /\ result' = [result EXCEPT !.modes = [all |-> Summarize(acc.all),
                                           no_hydrogen |-> Summarize(acc.no_hydrogen)]]
    /\ report_lines' = FormatReportLines(args.display_level, result', args.selection)
    /\ console' = Out(report_lines')
    /\ pc' = "export"
    /\ UNCHANGED <<args, states, mode, state_idx, acc, calls, returned, raised, disk>>

\* How the export can end: the report is written, or creating the parent
\* directory fails, or writing the file fails
WriteOutcomes == {"written", "mkdir fails", "write fails"}

\* lines 345-389: the report is exported and the result returned
Export(outcomes) ==
    /\ pc = "export"
    /\ IF args.export_report
       THEN \E out \in outcomes :
             LET target == args.report_path
                 file_path == FilePath(target, dirs, args.obj_to_fit[1], args.selection, now)
                 missing == Parent(file_path) \notin dirs
                 exc == <<"Permission denied">>
                 err == WriteError(PathStr(target), exc)
             IN  /\ out = "mkdir fails" => missing
                 /\ dirs' = IF missing /\ out # "mkdir fails"
                            THEN dirs \cup Prefixes(Parent(file_path))
                            ELSE dirs
                 /\ calls' = IF out = "mkdir fails"
                             THEN calls
                             ELSE Append(calls, Call("write_text", PathStr(file_path), 0))
                 /\ IF out = "written"
                    THEN /\ caught' = None
                         /\ files' = (file_path :> FileText(report_lines)) @@ files
                         /\ exports' = Append(exports, [path |-> file_path,
                                                        target |-> target,
                                                        in_dir |-> target \in dirs,
                                                        obj |-> args.obj_to_fit[1],
                                                        sel |-> args.selection,
                                                        at |-> now])
                         /\ result' = [result EXCEPT !.report_file = Some(Resolve(file_path))]
                         /\ console' = Out(<<Line("Report exported to: ", Resolve(file_path), <<>>)>>)
                    ELSE /\ caught' = Caught(IF out = "mkdir fails" THEN "mkdir" ELSE "write_text", exc)
                         /\ files' = files
                         /\ exports' = exports
                         /\ result' = [result EXCEPT !.error = JoinError(@, err)]
                         /\ console' = Out(<<Line("", err, <<>>)>>)
       ELSE /\ result' = result
            /\ caught' = None
            /\ console' = Out(<<Text("To export the report to a file, set export_report=True"),
                                Text("Set a specified path with the 'report_path' argument."),
                                Text("In absence of a specified path ...")>>)
            /\ UNCHANGED <<calls, dirs, files, exports>>
    /\ returned' = Some(result')
    /\ pc' = "returned"
    /\ UNCHANGED <<args, states, mode, state_idx, acc, rms_values, report_lines, raised,
                   now, invocation>>

-----------------------------------------------------------------------------
(* The session: further invocations and the passing of time *)

\* the host calls calculate_rms_stats again
Invoke(arguments) ==
    /\ pc \in {"returned", "raised"}
    /\ invocation < MaxInvocations
    /\ invocation' = invocation + 1
    /\ \E a \in arguments :
        /\ args' = a
        /\ pc' = "entry"
        /\ result' = BlankResult
        /\ states' = 0
        /\ mode' = 1
        /\ state_idx' = 1
        /\ acc' = [all |-> EmptyAcc, no_hydrogen |-> EmptyAcc]
        /\ rms_values' = None
        /\ caught' = None
        /\ report_lines' = <<>>
        /\ console' = <<>>
        /\ calls' = <<>>
        /\ returned' = None
        /\ raised' = None
    /\ UNCHANGED <<dirs, files, now, exports>>

\* a second passes
Tick ==
    /\ now < MaxClock
    /\ now' = now + 1
    /\ UNCHANGED <<args, pc, locals, console, calls, returned, raised, dirs, files,
                   exports, invocation>>

\* the session starts: the working directory and ./reports exist
SessionStart ==
    /\ dirs = {Dot, ReportsDir}
    /\ files = <<>>
    /\ now = 0
    /\ exports = <<>>
    /\ invocation = 1

-----------------------------------------------------------------------------
(* Specifications *)

Obj1A1T == <<"1", "A", "1", "T">>
SelAll == <<"a", "l", "l">>
SelChainA == <<"c", "h", "a", "i", "n", " ", "A">>

\* Spec: one invocation, with any arguments
Arguments ==
    [obj_to_fit : {None, Some(Obj1A1T)},
     selection : {SelAll, SelChainA},
     quiet : BOOLEAN,
     display_level : 0..3,
     export_report : BOOLEAN,
     report_path : {ReportsDir, OutFile}]

RmsFew == {RaiseRms, SeqRms(<<1, -1, 2>>)}

Init == SessionStart /\ \E a \in Arguments : Enter(a)

Next ==
    \/ Help
    \/ RejectLevel
    \/ CountStates(StateAnswers(MaxStates))
    \/ CountAtoms(AtomAnswers)
    \/ IntraFit(RmsFew)
    \/ NextMode
    \/ Report
    \/ Export(WriteOutcomes)

Spec == Init /\ [][Next]_vars

\* SpecAgg: one analysis, with every kind of answer of cmd.intra_fit
AggArguments ==
    {[obj_to_fit |-> Some(Obj1A1T), selection |-> SelAll, quiet |-> TRUE,
      display_level |-> 0, export_report |-> FALSE, report_path |-> Dot]}

RmsAnswers ==
    {RaiseRms, NoneRms, JunkRms, ScalarRms(3), ScalarRms(-1),
     SeqRms(<<1, 2>>), SeqRms(<<1, -1, 2>>), SeqRms(<<-1, 0>>), SeqRms(<<-2, -1>>)}

AtomsCounted == {ans \in AtomAnswers : ~ans.raised}

InitAgg == SessionStart /\ \E a \in AggArguments : Enter(a)

NextAgg ==
    \/ CountStates(StateAnswers(AggStates))
    \/ CountAtoms(AtomsCounted)
    \/ IntraFit(RmsAnswers)
    \/ NextMode
    \/ Report
    \/ Export(WriteOutcomes)

SpecAgg == InitAgg /\ [][NextAgg]_vars

\* SpecSession: several invocations of one session that export their reports
ObjDotted == <<"m", ".", "x">>
ObjUnderscored == <<"m", "_", "x">>

SessionArguments ==
    [obj_to_fit : {Some(ObjDotted), Some(ObjUnderscored)},
     selection : {SelAll, SelChainA},
     quiet : {TRUE},
     display_level : {0},
     export_report : {TRUE},
     report_path : {ReportsDir, OutFile}]

SessionStates == {ans \in StateAnswers(MaxStates) : ans.raised \/ ans.n = 1}
RmsOne == {ScalarRms(3)}

InitSession == SessionStart /\ \E a \in SessionArguments : Enter(a)

NextSession ==
    \/ CountStates(SessionStates)
    \/ CountAtoms(AtomsCounted)
    \/ IntraFit(RmsOne)
    \/ NextMode
    \/ Report
    \/ Export(WriteOutcomes)
    \/ Invoke(SessionArguments)
    \/ Tick

SpecSession == InitSession /\ [][NextSession]_vars

-----------------------------------------------------------------------------
(* Claims *)

AnalysisReturned == returned # None /\ DOMAIN returned[1] # {"help"}
StatesQueryFailed == caught # None /\ caught[1].fn = "count_states"
IntraFitCalls == SelectSeq(calls, LAMBDA c : c.fn = "intra_fit")
\* s holds part as a run of consecutive elements
Contains(s, part) ==
    \E i \in 0..(Len(s) - Len(part)) : SubSeq(s, i + 1, i + Len(part)) = part
ModeIsEmpty(mr) ==
    /\ mr.per_state_means = <<>>
    /\ mr.per_state_pairs = <<>>
    /\ mr.all_rms = <<>>
    /\ IsNaN(mr.overall_mean)
    /\ IsNaN(mr.overall_sd)

\* C1: when cmd.count_states fails (object given, display level valid), the
\* call returns without raising a result with states = 0, both modes empty
\* with sentinel statistics, error holding a message that contains the
\* failure reason; count_states is the only collaborator called and nothing
\* is written, also with export_report = True.
C1_StateQueryFailureShortCircuits ==
    StatesQueryFailed =>
        /\ pc = "returned"
        /\ raised = None
        /\ returned = Some(result)
        /\ result.states = 0
        /\ \A m \in ModeNames : ModeIsEmpty(result.modes[m])
        /\ result.error # None
        /\ Contains(result.error[1], caught[1].exc)
        /\ result.report_file = None
        /\ calls = <<Call("count_states", args.obj_to_fit[1], 0)>>
        /\ files = <<>>
        /\ exports = <<>>

C1_Witness ==
    /\ StatesQueryFailed
    /\ pc = "returned"
    /\ args.export_report
    /\ args.display_level = 2

\* One step of the per-state loop, seen from outside.
C2_FailureStep ==
    (rms_values' # None /\ state_idx' = state_idx + 1 /\ Raises(rms_values'[1])) =>
        LET m == ModeOrder[mode]
            o == ModeOrder[3 - mode]
        IN  /\ acc'[m].per_state_means = Append(acc[m].per_state_means, NaN)
            /\ acc'[m].per_state_pairs = Append(acc[m].per_state_pairs, <<>>)
            /\ acc'[m].all_rms = acc[m].all_rms
            /\ acc'[o] = acc[o]
            /\ pc' = "compute_mode"
            /\ mode' = mode
            /\ raised' = None
            /\ returned' = None
            /\ result' = result
C2_OtherStep ==
    (rms_values' # None /\ state_idx' = state_idx + 1 /\ ~Raises(rms_values'[1])) =>
        LET m == ModeOrder[mode]
            vs == IF rms_values'[1].kind \in {"scalar", "seq"} THEN rms_values'[1].vs ELSE <<>>
            kept == SelectSeq(vs, LAMBDA x : x >= 0)
        IN  /\ SubSeq(acc'[m].per_state_means, 1, state_idx - 1) = acc[m].per_state_means
            /\ acc'[m].per_state_pairs = Append(acc[m].per_state_pairs, kept)
            /\ acc'[m].all_rms = acc[m].all_rms \o kept
C2_AllRequested ==
    (pc \in {"export", "returned"} /\ ~StatesQueryFailed) =>
        /\ Len(IntraFitCalls) = 2 * states
        /\ \A k \in 1..2 : \A i \in 1..states :
              \E j \in DOMAIN calls :
                  calls[j] = Call("intra_fit",
                                  SelectionOf(ModeOrder[k], args.obj_to_fit[1], args.selection), i)
        /\ \A m \in ModeNames :
              Len(acc[m].per_state_means) = states /\ Len(acc[m].per_state_pairs) = states
\* C2: when cmd.intra_fit raises for one (mode, state), that state's mean is
\* recorded as nan and its pairs as the empty list, all_rms is left as it
\* was, the entries of all other states and of the other mode are untouched,
\* and the loop goes on; every iteration records what its own answer gives,
\* and a run that reaches the report has requested every state of both modes.
C2_FailureIsPerState ==
    /\ [][C2_FailureStep /\ C2_OtherStep]_vars
    /\ []C2_AllRequested

C2_Witness ==
    /\ rms_values = Some(RaiseRms)
    /\ mode = 2
    /\ states = 3
    /\ state_idx = 3
    /\ acc.all.per_state_pairs = <<<<1, 2>>, <<>>, <<3>>>>
    /\ acc.no_hydrogen.per_state_pairs = <<<<0>>, <<>>>>

\* C3 as claimed: every call with a display level outside {0, 1, 2} raises
\* to the caller, before any collaborator is called or anything written.
C3_AnyInvalidLevelRaises ==
    (pc # "entry" /\ args.display_level \notin {0, 1, 2}) =>
        /\ pc = "raised"
        /\ raised # None
        /\ returned = None
        /\ calls = <<>>
        /\ files = <<>>

\* C3 amended: every call with an object and a display level outside
\* {0, 1, 2} raises to the caller before any collaborator is called or
\* anything written; with objectId = None the usage text is returned instead.
C3_InvalidLevelRaisesWhenObjectGiven ==
    (pc # "entry" /\ args.display_level \notin {0, 1, 2}) =>
        IF args.obj_to_fit # None
        THEN /\ pc = "raised"
             /\ raised # None
             /\ returned = None
             /\ calls = <<>>
             /\ files = <<>>
             /\ console = <<>>
        ELSE /\ pc = "returned"
             /\ raised = None
             /\ returned = Some([help |-> HelpText])

C3_Witness ==
    /\ pc = "raised"
    /\ args.display_level = 3
    /\ args.obj_to_fit # None
    /\ args.export_report
    /\ ~args.quiet

\* The step that leaves the export stage.
ExportFailed == caught # None /\ caught[1].fn \in {"mkdir", "write_text"}
C4_ExportStep ==
    (pc = "export" /\ pc' # "export") =>
        /\ raised' = None
        /\ returned' = Some(result')
        /\ pc' = "returned"
        /\ result'.modes = result.modes
        /\ result'.states = result.states
        /\ result'.atom_counts = result.atom_counts
        /\ result'.selection = result.selection
        /\ ExportFailed' =>
              /\ args.export_report
              /\ result'.report_file = None
              /\ files' = files
              /\ LET msg == <<"Failed to write report to '">> \o PathStr(args.report_path)
                            \o <<"': ">> \o caught'[1].exc
                 IN  result'.error =
                        IF result.error = None
                        THEN Some(msg)
                        ELSE Some(result.error[1] \o <<"; ">> \o msg)
\* C4: when export_report is True and creating the directory or writing the
\* file fails, nothing is raised: the message is stored in result["error"]
\* (alone when there was none, after "; " otherwise), report_file stays
\* None, and every other field of the result is what it was before the
\* export, as after a successful export.
C4_ExportFailureIsCaptured == [][C4_ExportStep]_vars

C4_Witness ==
    /\ ExportFailed
    /\ caught[1].fn = "write_text"
    /\ pc = "returned"
    /\ result.error # None
    /\ result.report_file = None
    /\ result.modes.all.all_rms # <<>>

\* Lengths and concatenation of a list of lists.
RECURSIVE SumOfLengths(_)
SumOfLengths(ss) == IF ss = <<>> THEN 0 ELSE Len(Head(ss)) + SumOfLengths(Tail(ss))
RECURSIVE Concatenation(_, _)
Concatenation(ss, k) == IF k = 0 THEN <<>> ELSE Concatenation(ss, k - 1) \o ss[k]
\* C5: in every returned analysis result and for each mode, all_rms is the
\* concatenation of per_state_pairs[1], ..., per_state_pairs[states], so its
\* length is the sum of their lengths.
C5_AllValuesIsConcatenation ==
    AnalysisReturned =>
        \A m \in ModeNames :
            LET mr == returned[1].modes[m]
            IN  /\ DOMAIN mr.per_state_pairs = 1..returned[1].states
                /\ mr.all_rms = Concatenation(mr.per_state_pairs, returned[1].states)
                /\ Len(mr.all_rms) = SumOfLengths(mr.per_state_pairs)

C5_Witness ==
    /\ AnalysisReturned
    /\ returned[1].modes.all.per_state_pairs = <<<<0>>, <<>>, <<1, 2>>>>
    /\ returned[1].modes.no_hydrogen.per_state_pairs = <<<<3>>, <<1, 2>>, <<>>>>

\* The values an answer of cmd.intra_fit carries, and those kept.
RECURSIVE NonNegatives(_)
NonNegatives(vs) ==
    IF vs = <<>> THEN <<>>
    ELSE IF Head(vs) < 0 THEN NonNegatives(Tail(vs))
         ELSE <<Head(vs)>> \o NonNegatives(Tail(vs))
ValuesOf(r) == IF r.kind \in {"scalar", "seq"} THEN r.vs ELSE <<>>
NoNegative(vs) == \A j \in DOMAIN vs : vs[j] >= 0
\* C6: no value below zero that cmd.intra_fit returned is in per_state_pairs
\* or all_rms of either mode; per_state_pairs[s] is exactly the values >= 0
\* returned for state s, in returned order (zero is kept); a state whose
\* values are all negative is recorded as a state without values.
C6_NegativesAreDropped ==
    /\ \A m \in ModeNames :
          /\ NoNegative(acc[m].all_rms)
          /\ NoNegative(result.modes[m].all_rms)
          /\ \A i \in DOMAIN acc[m].per_state_pairs : NoNegative(acc[m].per_state_pairs[i])
          /\ \A i \in DOMAIN result.modes[m].per_state_pairs :
                NoNegative(result.modes[m].per_state_pairs[i])
    /\ (rms_values # None /\ ~Raises(rms_values[1])) =>
          LET a == acc[ModeOrder[mode]]
              i == state_idx - 1
              kept == NonNegatives(ValuesOf(rms_values[1]))
          IN  /\ Len(a.per_state_pairs) = i
              /\ a.per_state_pairs[i] = kept
              /\ kept = <<>> => IsNaN(a.per_state_means[i])
    /\ AnalysisReturned =>
          \A m \in ModeNames :
              returned[1].modes[m].per_state_pairs = acc[m].per_state_pairs

C6_Witness ==
    /\ rms_values = Some(SeqRms(<<-1, 0>>))
    /\ acc.all.per_state_pairs = <<<<>>, <<0>>>>
    /\ IsNaN(acc.all.per_state_means[1])
    /\ ~IsNaN(acc.all.per_state_means[2])

\* The report of the analysis result at display level L
Formatted == pc \in {"export", "returned"} /\ report_lines # <<>>
ReportAt(L) == FormatReportLines(L, [result EXCEPT !.error = None, !.report_file = None],
                                 args.selection)
IsPrefix(s, t) == Len(s) <= Len(t) /\ SubSeq(t, 1, Len(s)) = s
Count(lines, t) == Len(SelectSeq(lines, LAMBDA l : l.t = t))
StateTables(lines) == Count(lines, "State Mean RMS #pairs")
StateRows(lines) == Count(lines, "state row")
PairTables(lines) == Count(lines, "Pair # RMS")
PairRows(lines) == Count(lines, "pair row") + Count(lines, "   (no pair RMS values)")

\* C7 as claimed: every line of the level-0 report is in the level-1 report,
\* of which the level-0 report is a prefix, and every line of the level-1
\* report is in the level-2 report; level 0 has no per-state and no
\* per-pair table.
C7_EachLevelHoldsThePrevious ==
    Formatted =>
        LET r0 == ReportAt(0)
            r1 == ReportAt(1)
            r2 == ReportAt(2)
        IN  /\ Range(r0) \subseteq Range(r1)
            /\ IsPrefix(r0, r1)
            /\ Range(r1) \subseteq Range(r2)
            /\ StateTables(r0) = 0
            /\ PairTables(r0) = 0

\* The lines every level words its own way, and the rest.
SaysLevel(l) == l.t = "The level of detail in this report has been set to => "
IsSuppressedNote(l) ==
    l.t \in {"(Average RMS per state and detailed per-pair output suppressed)",
             "(Detailed per-pair output suppressed; set display_level==2 to enable)"}
Shared(lines) == SelectSeq(lines, LAMBDA l : ~SaysLevel(l) /\ ~IsSuppressedNote(l))
BeforeFooter(lines) == LET rest == Shared(lines) IN SubSeq(rest, 1, Len(rest) - 2)
Footer(lines) == SubSeq(lines, Len(lines) - 1, Len(lines))
\* C7 amended: leaving aside the line that names the display level and the
\* closing note on suppressed output, which every level words its own way,
\* the lines of level 0 before the footer are a prefix of those of level 1,
\* which adds one per-state table per mode (a row per state), and the lines
\* of level 1 before the footer are a prefix of those of level 2, which adds
\* the per-pair detail of every state in both modes; level 0 has no
\* per-state and no per-pair table.
C7_LevelsExtendApartFromLevelLines ==
    Formatted =>
        LET r0 == ReportAt(0)
            r1 == ReportAt(1)
            r2 == ReportAt(2)
            reports == <<r0, r1, r2>>
            level == [L \in 1..3 |-> SelectSeq(reports[L], SaysLevel)]
            note == [L \in 1..3 |-> SelectSeq(reports[L], IsSuppressedNote)]
        IN  /\ report_lines = reports[args.display_level + 1]
            /\ \A L \in 1..3 :
                  /\ Len(level[L]) = 1
                  /\ Len(note[L]) = (IF L = 3 THEN 0 ELSE 1)
                  /\ Footer(reports[L]) = Footer(r0)
            /\ \A K, L \in 1..3 : K # L => level[K] # level[L]
            /\ note[1] # note[2]
            /\ IsPrefix(BeforeFooter(r0), BeforeFooter(r1))
            /\ IsPrefix(BeforeFooter(r1), BeforeFooter(r2))
            /\ StateTables(r0) = 0 /\ StateRows(r0) = 0
            /\ PairTables(r0) = 0 /\ PairRows(r0) = 0
            /\ StateTables(r1) = 2 /\ StateRows(r1) = 2 * states
            /\ PairTables(r1) = 0 /\ PairRows(r1) = 0
            /\ StateTables(r2) = 2 /\ StateRows(r2) = 2 * states
            /\ PairTables(r2) = 2 * states
            /\ PairRows(r2) =
                  Sum([i \in 1..states |->
                          Sum([k \in 1..2 |->
                                  LET n == Len(result.modes[ModeOrder[k]].per_state_pairs[i])
                                  IN  IF n = 0 THEN 1 ELSE n])])

C7_Witness ==
    /\ Formatted
    /\ args.display_level = 1
    /\ states = 2
    /\ result.modes.all.per_state_pairs = <<<<>>, <<1, 2>>>>
    /\ StateRows(report_lines) = 4
    /\ PairTables(report_lines) = 0

\* The exports written into an existing directory, in the order made.
DirExports == {i \in DOMAIN exports : exports[i].in_dir}
\* C8 as claimed: the successful exports into an existing directory all
\* write to different paths.
C8_ExportPathsNeverCollide ==
    \A i, j \in DirExports :
        (i < j /\ exports[i].target = exports[j].target) =>
            exports[i].path # exports[j].path

\* The part of the file name that the arguments decide.
NamePart(e) == SafeObj(e.obj) \o SelPart(e.sel)
\* C8 amended: a successful export into an existing directory writes to a
\* path different from that of every earlier export made in another second
\* of the clock; two exports into the directory within the same second go to
\* the same path, the later overwriting the earlier, exactly when their
\* sanitized object id followed by their selection suffix is the same (as
\* it is for the same objectId and the same selection filter).
C8_ExportPathsDifferAcrossSeconds ==
    \A i, j \in DirExports :
        (i < j /\ exports[i].target = exports[j].target) =>
            /\ exports[i].at # exports[j].at => exports[i].path # exports[j].path
            /\ exports[i].at = exports[j].at =>
                  (exports[i].path = exports[j].path <=> NamePart(exports[i]) = NamePart(exports[j]))
            /\ exports[j].path \in DOMAIN files

C8_Witness ==
    /\ Len(exports) = 2
    /\ DirExports = {1, 2}
    /\ exports[1].obj = exports[2].obj
    /\ exports[1].sel = exports[2].sel
    /\ exports[1].at # exports[2].at
    /\ exports[1].path # exports[2].path
    /\ Cardinality(DOMAIN files) = 2

\* C9: a call without an object returns a result whose only field is the
\* usage text, whatever display_level and export_report are; no collaborator
\* is called, nothing is written, nothing is raised, and the usage text is
\* on the console exactly when quiet is False.
C9_NoObjectGivesUsageOnly ==
    (args.obj_to_fit = None /\ pc # "entry") =>
        /\ pc = "returned"
        /\ raised = None
        /\ returned # None
        /\ DOMAIN returned[1] = {"help"}
        /\ returned[1].help = HelpText
        /\ calls = <<>>
        /\ files = <<>>
        /\ exports = <<>>
        /\ dirs = {Dot, ReportsDir}
        /\ console = (IF args.quiet THEN <<>> ELSE <<Line("", HelpText, <<>>)>>)

C9_Witness ==
    /\ args.obj_to_fit = None
    /\ pc = "returned"
    /\ args.display_level = 3
    /\ args.export_report
    /\ args.quiet
    /\ console = <<>>

\* Exact tests for a mean and an N-1 standard deviation.
Num(n, d) == [k |-> "num", n |-> n, d |-> d]
IsMeanOf(x, vs) == x.k = "num" /\ x.d > 0 /\ x.n * Len(vs) = Sum(vs) * x.d
IsSampleSdOf(x, vs) ==
    LET cnt == Len(vs)
        \* cnt * (cnt - 1) times the sample variance
        spread == cnt * SumSq(vs) - Sum(vs) * Sum(vs)
    IN  IF x.k = "num"
        THEN x.n * x.n * cnt * (cnt - 1) = spread * x.d * x.d
        ELSE x.k = "sqrt" /\ x.n * cnt * (cnt - 1) = spread * x.d
\* C10: in every returned analysis result and for each mode, overall_mean is
\* nan exactly when all_rms is empty and is its arithmetic mean otherwise,
\* overall_sd is nan exactly when all_rms has fewer than two values and is
\* its N-1 standard deviation otherwise, and per_state_means[s] is nan
\* exactly when per_state_pairs[s] is empty and is its mean otherwise; the
\* pair lists [[1, 2], [], [3]] give the means 1.5, nan, 3, the overall mean
\* 2 and the standard deviation 1.
C10_SentinelExactlyWhenUndefined ==
    AnalysisReturned =>
        \A m \in ModeNames :
            LET mr == returned[1].modes[m]
            IN  /\ IsNaN(mr.overall_mean) <=> mr.all_rms = <<>>
                /\ mr.all_rms # <<>> => IsMeanOf(mr.overall_mean, mr.all_rms)
                /\ IsNaN(mr.overall_sd) <=> Len(mr.all_rms) < 2
                /\ Len(mr.all_rms) >= 2 => IsSampleSdOf(mr.overall_sd, mr.all_rms)
                /\ DOMAIN mr.per_state_means = DOMAIN mr.per_state_pairs
                /\ \A i \in DOMAIN mr.per_state_pairs :
                      /\ IsNaN(mr.per_state_means[i]) <=> mr.per_state_pairs[i] = <<>>
                      /\ mr.per_state_pairs[i] # <<>> =>
                            IsMeanOf(mr.per_state_means[i], mr.per_state_pairs[i])
                /\ mr.per_state_pairs = <<<<1, 2>>, <<>>, <<3>>>> =>
                      /\ mr.per_state_means = <<Num(3, 2), NaN, Num(3, 1)>>
                      /\ mr.all_rms = <<1, 2, 3>>
                      /\ mr.overall_mean = Num(2, 1)
                      /\ mr.overall_sd = Num(1, 1)

C10_Witness ==
    /\ AnalysisReturned
    /\ returned[1].states = 3
    /\ returned[1].modes.all.per_state_pairs = <<<<1, 2>>, <<>>, <<3>>>>
    /\ returned[1].modes.all.overall_sd = Num(1, 1)
    /\ returned[1].modes.no_hydrogen.all_rms = <<3>>
    /\ IsNaN(returned[1].modes.no_hydrogen.overall_sd)

\* The steps between the count of the states and the export, and the
\* warnings they print.
C11_NonFatalStep ==
    (pc \in {"count_atoms", "compute_mode"}) =>
        /\ result.error = None
        /\ result'.error = result.error
        /\ returned' = None /\ raised' = None
Warned(text) == \E i \in DOMAIN console : console[i].t = text
C11_ReturnedError ==
    AnalysisReturned =>
        /\ returned[1].error # None <=> (StatesQueryFailed \/ ExportFailed)
        /\ StatesQueryFailed =>
              returned[1].error = Some(StatesError(args.obj_to_fit[1], caught[1].exc))
        /\ ExportFailed =>
              returned[1].error = Some(WriteError(PathStr(args.report_path), caught[1].exc))
\* C11: in every returned analysis result, error is set exactly when
\* cmd.count_states failed or the export of the report (creating its
\* directory, writing the file) failed; a step in which cmd.count_atoms or
\* cmd.intra_fit fails, like every step between the state count and the
\* export, leaves error as it was, None, so a run with only such failures
\* returns error = None.
C11_ErrorOnlyFromFatalFailures ==
    /\ []C11_ReturnedError
    /\ [][C11_NonFatalStep]_vars

C11_Witness ==
    /\ AnalysisReturned
    /\ ~args.quiet
    /\ args.export_report
    /\ returned[1].atom_counts.all = None
    /\ returned[1].atom_counts.no_hydrogen = None
    /\ Warned("Warning: failed to count atoms for selection")
    /\ Warned("Warning: intra_fit failed for state")
    /\ returned[1].report_file # None
    /\ returned[1].error = None

\* The calls a run with n states makes before the export, as the claim
\* lists them, and the run's own place in that list.
StatesCounted == calls # <<>> /\ ~StatesQueryFailed
RmsRequests(sel, n) == [i \in 1..n |-> Call("intra_fit", sel, i)]
ExpectedCalls(n) ==
    LET obj == args.obj_to_fit[1]
        sel_all == BaseSelection(obj, args.selection)
        sel_no_h == SelNoH(obj, args.selection)
    IN  <<Call("count_states", obj, 0),
          Call("count_atoms", sel_all, 0),
          Call("count_atoms", sel_no_h, 0)>>
        \o RmsRequests(sel_all, n) \o RmsRequests(sel_no_h, n)
FileWrites == SelectSeq(calls, LAMBDA c : c.fn = "write_text")
\* C12: in a run whose state count succeeded with N states, the calls made
\* so far are always a prefix of: cmd.count_states, cmd.count_atoms of the
\* full selection, cmd.count_atoms of the no-hydrogen selection,
\* cmd.intra_fit of the full selection at states 1..N, cmd.intra_fit of the
\* no-hydrogen selection at states 1..N; the file is written only after all
\* of them, at most once, and exactly once when export_report is True and
\* the parent directory could be made; the returned result has made every
\* one of these calls and its per-state maps have exactly the keys 1..N.
C12_CallsInFixedOrderOnce ==
    StatesCounted =>
        LET expected == ExpectedCalls(states)
        IN  /\ result.states = states
            /\ pc # "returned" =>
                  /\ IsPrefix(calls, expected)
                  /\ pc = "export" => calls = expected
            /\ pc = "returned" =>
                  /\ IsPrefix(expected, calls)
                  /\ SubSeq(calls, Len(expected) + 1, Len(calls)) = FileWrites
                  /\ Len(FileWrites) =
                        IF args.export_report /\ ~(caught # None /\ caught[1].fn = "mkdir")
                        THEN 1 ELSE 0
                  /\ \A m \in ModeNames :
                        /\ DOMAIN returned[1].modes[m].per_state_means = 1..states
                        /\ DOMAIN returned[1].modes[m].per_state_pairs = 1..states

C12_Witness ==
    /\ AnalysisReturned
    /\ states = 2
    /\ ~args.quiet
    /\ returned[1].atom_counts.all = None
    /\ Warned("Warning: intra_fit failed for state")
    /\ caught # None /\ caught[1].fn = "write_text"
    /\ Len(calls) = 8
    /\ calls[4].state = 1 /\ calls[5].state = 2
    /\ calls[6].state = 1 /\ calls[7].state = 2
    /\ calls[8].fn = "write_text"

====
